---- MODULE Spec2Model ----
(***************************************************************************)
(* Model of the adaptive policy-decision engine of crowd-learn             *)
(* (src/policy.py, class Policy): re-solve scheduling in prep_worker, the   *)
(* exploration decision in get_next_action, the solver-based reward lookup  *)
(* and the test_and_boot heuristic in get_best_action.                      *)
(***************************************************************************)
EXTENDS Integers, Sequences, FiniteSets, TLC

(***************************************************************************)
(* Bounds of the model.                                                    *)
(***************************************************************************)
\* Number of workers the host loop serves in one run.
MaxWorkers == 5
\* Longest interaction with one worker for a solver-based or work_only engine.
MaxT == 1
\* Longest interaction with one worker for the test_and_boot heuristic.
MaxTB == 9
\* Largest reward value a solved policy reports.
MaxReward == 2
\* Longest interaction with the worker whose exploration is examined.
MaxE == 2

\* Python's None, for fields that otherwise hold a non-negative number.
None == -1

(***************************************************************************)
(* The model's catalogs (work_learn_problem / POMDPModel, not in src/).     *)
(***************************************************************************)
\* model.actions: the fixed, ordered action catalog.
Actions ==
  << [name |-> "ask",  quiz_val |-> None],
     [name |-> "boot", quiz_val |-> None],
     [name |-> "quiz", quiz_val |-> 0],
     [name |-> "quiz", quiz_val |-> 1],
     [name |-> "exp",  quiz_val |-> None],
     [name |-> "tell", quiz_val |-> None] >>

ActionIdx == 1..Len(Actions)

\* Action.is_quiz()
is_quiz(i) == Actions[i].quiz_val # None

\* model.actions.index(wlp.Action(name)) for a non-quiz action name
ActionIndex(name) ==
  CHOOSE i \in ActionIdx : Actions[i].name = name /\ Actions[i].quiz_val = None

\* Action.valid_after(last_action); last = 0 stands for "no previous action".
valid_after(i, last) ==
  IF Actions[i].name = "exp" THEN last # 0 /\ is_quiz(last) ELSE TRUE

\* model.observations: the fixed observation catalog.
Observations == << "null", "r", "w", "term" >>

ObsIdx == 1..Len(Observations)

\* The observation indices the environment can answer an action with.
ObsAfter(a) ==
  IF is_quiz(a) THEN {2, 3}
  ELSE IF Actions[a].name = "boot" THEN {4}
  ELSE {1}

(***************************************************************************)
(* State.                                                                  *)
(***************************************************************************)
VARIABLES
  cfg,                 \* the engine's configuration (Policy.__init__ arguments)
  args,                \* the throttle arguments the host passes to prep_worker
  params_estimated,    \* keys of self.params_estimated
  hparams_estimated,   \* keys of self.hparams_estimated
  estimate_times,      \* keys of self.estimate_times
  resolve_times,       \* keys of self.resolve_times
  external_policy,     \* None, or the worker index whose resolve produced it
  use_explore_policy,  \* self.use_explore_policy
  cur_reserved,        \* the reserved argument of the latest prep_worker call
  call_in,             \* budget figures and random draw of the call examined
  other_cfg,           \* the configuration of a second engine, for comparison
  solver_runs,         \* number of completed run_solver calls
  n_workers,           \* history.n_workers()
  cur,                 \* history.history[-1]: the current worker's (a, o) pairs
  pc,                  \* where the host loop stands
  belief_rewards,      \* get_action_rewards(belief) of the call examined
  result               \* what the last engine call returned or raised

vars == << cfg, args, params_estimated, hparams_estimated, estimate_times,
           resolve_times, external_policy, use_explore_policy, solver_runs,
           n_workers, cur, pc, belief_rewards, result, cur_reserved,
           call_in, other_cfg >>

engine == << params_estimated, hparams_estimated, estimate_times,
             resolve_times, external_policy, use_explore_policy, solver_runs >>

(***************************************************************************)
(* Configuration (Policy.__init__).                                        *)
(***************************************************************************)
SolverPolicies == {"appl", "zmdp", "aitoolbox"}

NoEpsilon == [kind |-> "none", p |-> None]

\* self.rl_p(): the policy does reinforcement learning.
rl_p(c) == c.epsilon.kind # "none" \/ c.thompson

\* The engine built for self.explore_policy: Policy(**self.explore_policy),
\* a configuration of its own with no exploration settings.
ExploreCfg(c) ==
  [c EXCEPT !.policy = c.explore_policy, !.epsilon = NoEpsilon,
            !.thompson = FALSE, !.explore_policy = "none"]

\* Action.get_type()
get_type(i) ==
  IF is_quiz(i) THEN "quiz"
  ELSE IF Actions[i].name = "tell" THEN "teach"
  ELSE Actions[i].name

(***************************************************************************)
(* Exploration probability.  Probabilities and random draws are counted in  *)
(* quarters: 0, 1/4, ..., 4/4.                                              *)
(***************************************************************************)
\* The values np.random.random() is modelled to return: 0.0, 0.25, 0.75.
Draws == {0, 1, 3}

\* get_epsilon_probability(worker, t, budget_frac): a constant, or the
\* expression "f" evaluated at f = budget_frac (None when unavailable).
get_epsilon_probability(c, worker, t, budget_frac) ==
  IF c.epsilon.kind = "f" THEN budget_frac ELSE c.epsilon.p

\* Faulty variant of DrawSucceeds: the draw is not compared.
DrawAlways(u, prob) == prob # None

\* np.random.random() <= probability; no number is <= None in Python 2.
DrawSucceeds(u, prob) == prob # None /\ u <= prob

\* budget_explore_frac as set_use_explore_policy computes it.
PrepBudgetFrac(budget_spent, budget_explore) ==
  IF budget_spent = None \/ budget_explore = None THEN None
  ELSE IF budget_explore = 0 THEN 4
  ELSE (4 * budget_spent) \div budget_explore

\* Faulty variant of set_use_explore_policy: the reserved flag is not read.
SetUseExploreUnreserved(c, worker_n, budget_spent, budget_explore, t, reserved, u) ==
  /\ c.epsilon.kind # "none"
  /\ c.explore_policy # "none"
  /\ u <= (IF c.epsilon.kind = "f"
             THEN (IF budget_explore \in {None, 0} THEN 4
                   ELSE (4 * budget_spent) \div budget_explore)
             ELSE c.epsilon.p)

\* The value set_use_explore_policy assigns to self.use_explore_policy.
set_use_explore_policy(c, worker_n, budget_spent, budget_explore, t, reserved, u) ==
  /\ ~reserved
  /\ c.epsilon.kind # "none"
  /\ c.explore_policy # "none"
  /\ DrawSucceeds(u, get_epsilon_probability(
         c, worker_n, t, PrepBudgetFrac(budget_spent, budget_explore)))

(***************************************************************************)
(* What a call returns or raises.                                          *)
(***************************************************************************)
\* A reward table is a mapping from action index to reward; 0 = no entry.
NoRewards == [i \in ActionIdx |-> 0]

\* get_action_rewards(belief) of a solved policy: any table with rewards in
\* 1..MaxReward (the belief is the caller's choice).
RewardTables == [ActionIdx -> 0..MaxReward]

\* get_best_action returns action a from the branch named.
Ret(a, branch) == [a |-> a, err |-> "none", branch |-> branch]

\* get_best_action raises the exception named.
Raise(err, branch) == [a |-> 0, err |-> err, branch |-> branch]

(***************************************************************************)
(* Re-solve scheduling (prep_worker).                                      *)
(***************************************************************************)
SetMax(S) == CHOOSE x \in S : \A y \in S : y <= x

\* Faulty variants of ResolveWanted: no first resolve for an exploring worker; a
\* re-resolve that does not ask whether the policy learns.
ResolveWantedNoFirst(c, ext, uep) ==
  /\ c.policy \in SolverPolicies
  /\ rl_p(c) /\ ~uep

ResolveWantedAlways(c, ext, uep) ==
  /\ c.policy \in SolverPolicies
  /\ (ext = None \/ ~uep)

\* Faulty variant of ResolveWanted: the policy variant is not asked for.
ResolveWantedAnyPolicy(c, ext, uep) ==
  ext = None \/ (rl_p(c) /\ ~uep)

\* resolve_p before the throttles.
ResolveWanted(c, ext, uep) ==
  /\ c.policy \in SolverPolicies
  /\ (ext = None \/ (rl_p(c) /\ ~uep))

\* Faulty variant of IntervalThrottle: the interval is one worker short.
IntervalThrottleShort(times, worker, min_interval) ==
  /\ times # {}
  /\ min_interval # None
  /\ worker - SetMax(times) < min_interval - 1

\* Worker-interval throttle: too soon after the latest recorded resolve.
IntervalThrottle(times, worker, min_interval) ==
  /\ times # {}
  /\ min_interval # None
  /\ worker - SetMax(times) < min_interval

\* Faulty variant of CountThrottle: the cap is passed before it throttles.
CountThrottleLate(times, max_n) ==
  /\ times # {}
  /\ max_n # None
  /\ Cardinality(times) > max_n

\* Count throttle: the number of recorded resolves has reached the cap.
CountThrottle(times, max_n) ==
  /\ times # {}
  /\ max_n # None
  /\ Cardinality(times) >= max_n

\* resolve_p as prep_worker finally computes it.
ResolveP(c, ext, uep, times, worker, a) ==
  /\ ResolveWanted(c, ext, uep)
  /\ ~IntervalThrottle(times, worker, a.min_interval)
  /\ ~CountThrottle(times, a.max_n)

\* estimate_p
EstimateP(c, resolve_p) == rl_p(c) /\ resolve_p

\* prep_worker(history, budget_spent, budget_explore, reserved, ...) with the
\* random draw u of set_use_explore_policy and the solver's outcome ok
\* (run_solver returns a policy, or raises when the subprocess fails).
PrepWorker(budget_spent, budget_explore, reserved, u, ok) ==
  LET worker == n_workers
      uep == set_use_explore_policy(cfg, worker, budget_spent, budget_explore,
                                    0, reserved, u)
      resolve_p == ResolveP(cfg, external_policy, uep, resolve_times, worker, args)
      estimate_p == EstimateP(cfg, resolve_p)
  IN /\ pc = "idle"
     /\ n_workers < MaxWorkers
     /\ use_explore_policy' = uep
     /\ estimate_times' =
          IF estimate_p THEN estimate_times \cup {worker} ELSE estimate_times
     /\ params_estimated' =
          IF estimate_p THEN params_estimated \cup {worker} ELSE params_estimated
     /\ hparams_estimated' =
          IF estimate_p THEN hparams_estimated \cup {worker} ELSE hparams_estimated
     /\ IF resolve_p /\ ok
          THEN /\ external_policy' = worker
               /\ resolve_times' = resolve_times \cup {worker}
               /\ solver_runs' = solver_runs + 1
          ELSE UNCHANGED << external_policy, resolve_times, solver_runs >>
     /\ pc' = IF resolve_p /\ ~ok THEN "idle" ELSE "prepped"
     /\ result' = [call |-> "prep_worker", a |-> 0, exploring |-> FALSE,
                   err |-> IF resolve_p /\ ~ok THEN "CalledProcessError" ELSE "none",
                   branch |-> IF resolve_p THEN "resolve" ELSE "none"]
     /\ cur_reserved' = reserved
     /\ UNCHANGED << cfg, other_cfg, args, belief_rewards, n_workers, cur,
                     call_in >>

(***************************************************************************)
(* The current worker's history.                                           *)
(***************************************************************************)
\* current_actions, current_observations = zip(*history.history[-1])
current_actions(h) == [i \in 1..Len(h) |-> h[i].a]

current_observations(h) == [i \in 1..Len(h) |-> h[i].o]

\* The index of the last action, 0 at a worker's start.
LastAction(h) == IF Len(h) = 0 THEN 0 ELSE h[Len(h)].a

\* get_valid_actions(history)
get_valid_actions(h) == { i \in ActionIdx : valid_after(i, LastAction(h)) }

\* Number of positions of sequence s that hold x (collections.Counter).
Count(s, x) == Cardinality({ i \in 1..Len(s) : s[i] = x })

\* util.last_true(lst, f) for f = is_quiz: the trailing run of quiz actions.
last_true(acts) ==
  LET stops == { i \in 1..Len(acts) : ~is_quiz(acts[i]) }
      from == IF stops = {} THEN 1 ELSE SetMax(stops) + 1
  IN  SubSeq(acts, from, Len(acts))

(***************************************************************************)
(* get_best_action: the test_and_boot heuristic.                           *)
(***************************************************************************)
a_ask == ActionIndex("ask")

a_boot == ActionIndex("boot")

a_exp == ActionIndex("exp")

\* teach_actions
teach_actions(c) ==
  IF c.teach_type = "exp" THEN { i \in ActionIdx : is_quiz(i) }
  ELSE { i \in ActionIdx : Actions[i].name = "tell" }

\* teach_counts[a]
teach_counts(c, acts, a) ==
  IF c.teach_type = "exp"
    THEN Cardinality({ i \in 1..(Len(acts) - 1) :
           acts[i] = a /\ is_quiz(acts[i]) /\ Actions[acts[i + 1]].name = "exp" })
    ELSE Count(acts, a)

teach_actions_remaining(c, acts) ==
  { a \in teach_actions(c) : teach_counts(c, acts, a) < c.n_teach }

\* Faulty variant of teach_actions_in_progress: no batch is remembered.
TeachInProgressNone(c, acts) == {}

teach_actions_in_progress(c, acts) ==
  { a \in teach_actions_remaining(c, acts) : teach_counts(c, acts, a) > 0 }

\* The teach phase: the set of returns, empty when control falls through to
\* the test & work phase.
TeachPhase(c, acts) ==
  IF c.teach_type = "none" THEN {}
  ELSE IF Len(acts) = 0
    THEN IF teach_actions_remaining(c, acts) # {}
           THEN { Ret(a, "teach") : a \in teach_actions_remaining(c, acts) }
           ELSE { Ret(a_ask, "start") }
  ELSE IF c.teach_type = "exp" /\ acts[Len(acts)] \in teach_actions_remaining(c, acts)
    THEN { Ret(a_exp, "teach") }
  ELSE IF teach_actions_in_progress(c, acts) # {}
    THEN { Ret(a, "teach") : a \in teach_actions_in_progress(c, acts) }
  ELSE { Ret(a, "teach") : a \in teach_actions_remaining(c, acts) }

\* a_final
a_final(c) == IF c.final_action = "work" THEN a_ask ELSE a_boot

\* test_actions
test_actions == { i \in ActionIdx : is_quiz(i) }

\* Faulty variant of block_length: the work actions are left out of the block.
BlockLengthNoWork(c) == Cardinality(test_actions) * c.n_test

\* block_length
block_length(c) == Cardinality(test_actions) * c.n_test + c.n_work

\* n_blocks_completed >= self.n_blocks, with n_blocks_completed the true
\* quotient len(current_actions) / block_length.
BlocksDone(c, acts) == Len(acts) >= c.n_blocks * block_length(c)

\* test_actions_remaining
test_actions_remaining(c, acts) ==
  { a \in test_actions : Count(last_true(acts), a) < c.n_test }

\* The work-phase test: self.n_work == 0 or n_work_actions % self.n_work == 0
AtTestPoint(c, acts) ==
  c.n_work = 0 \/ Count(acts, a_ask) % c.n_work = 0

\* test_answers = current_observations[-1 * self.accuracy_window:]
test_answers(c, obs) ==
  IF c.accuracy_window = 0 \/ c.accuracy_window >= Len(obs) THEN obs
  ELSE SubSeq(obs, Len(obs) - c.accuracy_window + 1, Len(obs))

\* Number of characters of the joined answer strings, and how many are 'r'.
NameLen(o) == IF Observations[o] \in {"null", "term"} THEN 4 ELSE 1

RECURSIVE SumLen(_)
SumLen(ans) ==
  IF Len(ans) = 0 THEN 0 ELSE NameLen(ans[1]) + SumLen(Tail(ans))

RightCount(ans) == Cardinality({ i \in 1..Len(ans) : Observations[ans[i]] = "r" })

\* Faulty variant of AccuracyMet: the threshold itself does not pass.
AccuracyMetStrict(c, ans) ==
  RightCount(ans) * c.accuracy.den > c.accuracy.num * SumLen(ans)

\* accuracy >= self.accuracy, the threshold being the fraction num/den.
AccuracyMet(c, ans) ==
  RightCount(ans) * c.accuracy.den >= c.accuracy.num * SumLen(ans)

\* The end-of-test accuracy check.
AccuracyCheck(c, obs) ==
  LET ans == test_answers(c, obs)
  IN  IF \E i \in 1..Len(ans) : Observations[ans[i]] \in {"term", "null"}
        THEN { Raise("AssertionError", "check") }
      ELSE IF SumLen(ans) = 0
        THEN { Raise("ZeroDivisionError", "check") }
      ELSE IF AccuracyMet(c, ans)
        THEN { Ret(a_ask, "check") }
      ELSE { Ret(a_boot, "check") }

\* The test & work phase.
TestWorkPhase(c, acts, obs) ==
  IF c.n_blocks # None /\ c.n_blocks = 0
    THEN { Ret(a_final(c), "final") }
  ELSE IF c.n_blocks # None /\ BlocksDone(c, acts)
    THEN { Ret(a_final(c), "final") }
  ELSE IF AtTestPoint(c, acts)
    THEN IF test_actions_remaining(c, acts) = {}
           THEN AccuracyCheck(c, obs)
           ELSE { Ret(a, "test") : a \in test_actions_remaining(c, acts) }
  ELSE { Ret(a_ask, "work") }

\* get_best_action for policy 'test_and_boot'
TestAndBoot(c, h) ==
  IF TeachPhase(c, current_actions(h)) # {}
    THEN TeachPhase(c, current_actions(h))
    ELSE TestWorkPhase(c, current_actions(h), current_observations(h))

(***************************************************************************)
(* get_best_action: solver-based policies and the dispatch.                *)
(***************************************************************************)
\* Faulty variant of SolverBest: the best action of the whole table, valid or not.
SolverBestUnrestricted(valid, rewards) ==
  LET with_rewards == { a \in ActionIdx : rewards[a] # 0 }
      max_reward == SetMax({ rewards[a] : a \in with_rewards })
  IN  IF { a \in valid : rewards[a] # 0 } = {}
        THEN { Raise("NoValidAction", "solver") }
        ELSE { Ret(a, "solver") :
                 a \in { b \in with_rewards : rewards[b] = max_reward } }

\* The reward lookup restricted to the valid actions.
SolverBest(valid, rewards) ==
  LET valid_actions_with_rewards == { a \in valid : rewards[a] # 0 }
      max_valid_reward ==
        SetMax({ rewards[a] : a \in valid_actions_with_rewards })
  IN  IF valid_actions_with_rewards = {}
        THEN { Raise("NoValidAction", "solver") }
        ELSE { Ret(a, "solver") :
                 a \in { b \in valid_actions_with_rewards :
                           rewards[b] = max_valid_reward } }

\* get_best_action(history, belief) of an engine with configuration c and
\* external policy ext, tables being the reward tables
\* get_action_rewards(belief) may return: the set of possible outcomes.
get_best_action(c, ext, h, tables) ==
  IF c.policy = "work_only" THEN { Ret(a_ask, "work_only") }
  ELSE IF c.policy = "test_and_boot" THEN TestAndBoot(c, h)
  ELSE IF ext = None
    THEN { Raise("AttributeError", "solver") }
  ELSE UNION { SolverBest(get_valid_actions(h), r) : r \in tables }

(***************************************************************************)
(* get_next_action.                                                        *)
(***************************************************************************)
\* The state Policy.__init__ leaves in the nested explore_policy engine;
\* nothing in prep_worker or get_next_action of the outer engine changes it.
explore_external_policy == None

explore_use_explore_policy == FALSE

\* The returned pair (action, is_exploring), or the exception raised.
Pair(out, exploring) ==
  [call |-> "get_next_action", a |-> out.a,
   exploring |-> exploring /\ out.err = "none",
   err |-> out.err, branch |-> out.branch]

\* valid_explore_actions
valid_explore_actions(c, h) ==
  { i \in get_valid_actions(h) : get_type(i) \in c.explore_actions }

\* Faulty variant of get_next_action: the delegated branch draws again at every
\* call instead of reading the cached flag.
RECURSIVE GetNextActionRedraw(_, _, _, _, _, _, _, _)
GetNextActionRedraw(c, uep, ext, h, budget_spent, budget_explore, u, tables) ==
  IF budget_explore = 0
    THEN { [call |-> "get_next_action", a |-> 0, exploring |-> FALSE,
            err |-> "ZeroDivisionError", branch |-> "budget"] }
  ELSE IF c.explore_policy # "none" /\ c.epsilon.kind # "none" /\ u <= 1
    THEN { [call |-> "get_next_action", a |-> out.a,
            exploring |-> out.err = "none", err |-> out.err,
            branch |-> out.branch] :
             out \in get_best_action(
                       [c EXCEPT !.policy = c.explore_policy], None, h, tables) }
  ELSE { [call |-> "get_next_action", a |-> out.a, exploring |-> FALSE,
          err |-> out.err, branch |-> out.branch] :
           out \in get_best_action(c, ext, h, tables) }

RECURSIVE get_next_action(_, _, _, _, _, _, _, _)
get_next_action(c, uep, ext, h, budget_spent, budget_explore, u, tables) ==
  IF budget_explore = 0
    THEN { Pair(Raise("ZeroDivisionError", "budget"), FALSE) }
  ELSE IF /\ c.epsilon.kind # "none"
          /\ c.explore_policy = "none"
          /\ DrawSucceeds(u, get_epsilon_probability(
               c, n_workers - 1, Len(h), (4 * budget_spent) \div budget_explore))
    THEN IF valid_explore_actions(c, h) = {}
           THEN { Pair(Raise("ValueError", "inline"), FALSE) }
           ELSE { Pair(Ret(a, "inline"), TRUE) :
                    a \in valid_explore_actions(c, h) }
  ELSE IF uep
    THEN { Pair(out, TRUE) :
             out \in get_next_action(ExploreCfg(c), explore_use_explore_policy,
                                     explore_external_policy, h,
                                     budget_spent, budget_explore, u, tables) }
  ELSE { Pair(out, FALSE) : out \in get_best_action(c, ext, h, tables) }

(***************************************************************************)
(* The host loop: prep_worker, new_worker, then one get_next_action per     *)
(* timestep, each returned action taken and its observation recorded.      *)
(***************************************************************************)
Horizon == IF cfg.policy = "test_and_boot" THEN MaxTB ELSE MaxT

\* The budget figures the host passes: (spent, total).
Budgets == { <<0, 0>>, <<1, 2>>, <<2, 2>> }

PrepBudgets == Budgets \cup { <<None, None>> }

\* No get_next_action call is being examined.
NoCall == [budget_spent |-> None, budget_explore |-> None, u |-> None]

Idle == [call |-> "none", a |-> 0, exploring |-> FALSE, err |-> "none",
         branch |-> "none"]

\* The reward tables the solved policies of a run return: the empty one and
\* those of one entry, for ask, boot or exp (exp is invalid unless a quiz
\* precedes it); they make every outcome of the lookup happen.
LookupTables ==
  { NoRewards } \cup
  { [NoRewards EXCEPT ![i] = v] : i \in {a_ask, a_boot, a_exp}, v \in 1..MaxReward }

\* history.new_worker(): the prepared worker arrives.
NewWorker ==
  /\ pc = "prepped"
  /\ n_workers' = n_workers + 1
  /\ cur' = << >>
  /\ pc' = "working"
  /\ UNCHANGED << cfg, other_cfg, args, belief_rewards, engine, result,
                  cur_reserved, call_in >>

\* The host asks the engine for the next action.
GetNextAction ==
  /\ pc = "working"
  /\ Len(cur) < Horizon
  /\ \E b \in Budgets, u \in Draws :
       \E out \in get_next_action(cfg, use_explore_policy, external_policy,
                                  cur, b[1], b[2], u, LookupTables) :
         result' = out
  /\ pc' = "acted"
  /\ UNCHANGED << cfg, other_cfg, args, belief_rewards, engine, n_workers,
                  cur, cur_reserved, call_in >>

\* The host takes the returned action and records the worker's observation.
Record ==
  /\ pc = "acted"
  /\ result.err = "none"
  /\ \E o \in ObsAfter(result.a) :
       cur' = Append(cur, [a |-> result.a, o |-> o])
  /\ pc' = IF result.a = a_boot THEN "booted" ELSE "working"
  /\ call_in' = NoCall
  /\ UNCHANGED << cfg, other_cfg, args, belief_rewards, engine, n_workers,
                  result, cur_reserved >>

\* The worker leaves, is booted, or the failed call ends the worker's run.
FinishWorker ==
  /\ \/ pc \in {"working", "booted"}
     \/ pc = "acted" /\ result.err # "none"
  /\ pc' = "idle"
  /\ cur' = << >>
  /\ result' = Idle
  /\ cur_reserved' = FALSE
  /\ call_in' = NoCall
  /\ UNCHANGED << cfg, other_cfg, args, belief_rewards, engine, n_workers >>

Next ==
  \/ \E b \in PrepBudgets, reserved \in BOOLEAN, u \in Draws, ok \in BOOLEAN :
       PrepWorker(b[1], b[2], reserved, u, ok)
  \/ NewWorker
  \/ GetNextAction
  \/ Record
  \/ FinishWorker

(***************************************************************************)
(* Initial states: the state Policy.__init__ leaves, for each configuration *)
(* of the family checked.                                                  *)
(***************************************************************************)
Epsilons ==
  { NoEpsilon, [kind |-> "const", p |-> 4], [kind |-> "f", p |-> None] }

\* The throttle arguments of prep_worker: (min interval, max count).
MinIntervals == { None, 1, 2 }

MaxCounts == { None, 0, 1, 2 }

DefaultCfg ==
  [policy |-> "work_only", epsilon |-> NoEpsilon, thompson |-> FALSE,
   explore_policy |-> "none", explore_actions |-> {},
   teach_type |-> "none", n_teach |-> 0, n_blocks |-> None,
   n_test |-> 0, n_work |-> 0, accuracy |-> [num |-> 0, den |-> 1],
   accuracy_window |-> 0, final_action |-> "work",
   discount |-> 9900, timeout |-> None, horizon |-> None,
   hyperparams |-> "HyperParams", n_worker_classes |-> 1,
   desired_accuracy |-> None]

\* Solver-based engines, with every exploration setting.
ExploreSettings ==
  { s \in [epsilon : Epsilons, thompson : BOOLEAN,
           explore_policy : {"none", "work_only", "appl"},
           explore_actions : {{}, {"quiz"}, {"exp"}}] :
      \* explore_actions is given exactly for inline exploration
      /\ (s.explore_actions # {}) <=>
           (s.epsilon.kind # "none" /\ s.explore_policy = "none")
      \* one nested type stands for an explore_policy never consulted
      /\ s.epsilon.kind = "none" => s.explore_policy # "work_only"
      \* thompson decides rl_p only when epsilon is not set
      /\ s.epsilon.kind # "none" => ~s.thompson }

SolverCfgs ==
  { [DefaultCfg EXCEPT !.policy = p, !.epsilon = s.epsilon,
                       !.thompson = s.thompson,
                       !.explore_policy = s.explore_policy,
                       !.explore_actions = s.explore_actions] :
      p \in SolverPolicies, s \in ExploreSettings }

Init ==
  /\ cfg \in SolverCfgs
  /\ args \in [min_interval : MinIntervals, max_n : MaxCounts]
  /\ params_estimated = {}
  /\ hparams_estimated = {}
  /\ estimate_times = {}
  /\ resolve_times = {}
  /\ external_policy = None
  /\ use_explore_policy = FALSE
  /\ solver_runs = 0
  /\ n_workers = 0
  /\ cur = << >>
  /\ pc = "idle"
  /\ belief_rewards = NoRewards
  /\ result = Idle
  /\ cur_reserved = FALSE
  /\ call_in = NoCall
  /\ other_cfg = DefaultCfg

Spec == Init /\ [][Next]_vars

(***************************************************************************)
(* The test_and_boot heuristic: the configurations checked, and the last    *)
(* worker of a run (a heuristic engine has no state that earlier workers    *)
(* change).                                                                 *)
(***************************************************************************)
\* The defaults of resolve_min_worker_interval and resolve_max_n.
DefaultArgs == [min_interval |-> 10, max_n |-> 10]

\* self.accuracy_window as __init__ sets it: None gives n_test * n_test_actions.
InitAccuracyWindow(w, n_test) ==
  IF w = None THEN n_test * Cardinality(test_actions) ELSE w

Half == [num |-> 1, den |-> 2]

ThreeQuarters == [num |-> 3, den |-> 4]

FourFifths == [num |-> 4, den |-> 5]

HeurSettings ==
  [teach_type : {"none", "tell", "exp"}, n_teach : 0..2,
   n_blocks : {None, 0, 1, 2}, n_test : 0..2, n_work : 0..3,
   accuracy : {[num |-> 0, den |-> 1], Half, ThreeQuarters, FourFifths},
   accuracy_window : {None, 1, 3}, final_action : {"work", "boot"}]

\* n_blocks = 0: n_test, n_work, accuracy and accuracy_window are not set.
NoTestFamily(s) ==
  /\ s.n_blocks = 0
  /\ s.n_test = 0 /\ s.n_work = 0 /\ s.accuracy.num = 0 /\ s.accuracy_window = None

\* One repetition per quiz action, no teaching: every n_work, n_blocks,
\* window and final action.
ShortTestFamily(s) ==
  /\ s.teach_type = "none" /\ s.n_teach = 0
  /\ s.n_blocks # 0 /\ s.n_test = 1
  /\ s.accuracy \in {Half, ThreeQuarters}
  /\ s.n_blocks = None => s.final_action = "work"

\* Two repetitions per quiz action, no teaching: a window of four answers.
LongTestFamily(s) ==
  /\ s.teach_type = "none" /\ s.n_teach = 0
  /\ s.n_blocks \in {None, 1} /\ s.n_test = 2 /\ s.n_work \in {1, 3}
  /\ s.accuracy \in {ThreeQuarters, FourFifths}
  /\ s.accuracy_window = None /\ s.final_action = "work"

\* A teach phase before a short test/work cycle.
TeachFamily(s) ==
  /\ s.teach_type # "none"
  /\ s.n_blocks \in {None, 1} /\ s.n_test = 1 /\ s.n_work \in {0, 1, 2}
  /\ s.accuracy = ThreeQuarters /\ s.accuracy_window = None
  /\ s.n_blocks = None => s.final_action = "work"

HeurCfgs ==
  { [DefaultCfg EXCEPT !.policy = "test_and_boot",
                       !.teach_type = s.teach_type, !.n_teach = s.n_teach,
                       !.n_blocks = s.n_blocks, !.n_test = s.n_test,
                       !.n_work = s.n_work, !.accuracy = s.accuracy,
                       !.accuracy_window =
                          InitAccuracyWindow(s.accuracy_window, s.n_test),
                       !.final_action = s.final_action] :
      s \in { t \in HeurSettings :
                \/ NoTestFamily(t) \/ ShortTestFamily(t)
                \/ LongTestFamily(t) \/ TeachFamily(t) } }

InitTB ==
  /\ cfg \in HeurCfgs
  /\ args = DefaultArgs
  /\ params_estimated = {}
  /\ hparams_estimated = {}
  /\ estimate_times = {}
  /\ resolve_times = {}
  /\ external_policy = None
  /\ use_explore_policy = FALSE
  /\ solver_runs = 0
  /\ n_workers = MaxWorkers - 1
  /\ cur = << >>
  /\ pc = "idle"
  /\ belief_rewards = NoRewards
  /\ result = Idle
  /\ cur_reserved = FALSE
  /\ call_in = NoCall
  /\ other_cfg = DefaultCfg

SpecTB == InitTB /\ [][Next]_vars

(***************************************************************************)
(* get_best_action of a solved, non-learning engine as a function of its    *)
(* inputs: the history and the reward table of the belief.                  *)
(***************************************************************************)
\* The current worker's histories get_valid_actions tells apart: it reads
\* the last action only.
BestHistories ==
  { << >> } \cup
  { << [a |-> a, o |-> o] >> :
      a \in { i \in ActionIdx : valid_after(i, 0) /\ i # a_boot },
      o \in ObsIdx }

InitBest ==
  /\ cfg \in { [DefaultCfg EXCEPT !.policy = p] : p \in SolverPolicies }
  /\ args = [min_interval |-> None, max_n |-> None]
  /\ params_estimated = {}
  /\ hparams_estimated = {}
  /\ estimate_times = {}
  /\ resolve_times = {0}
  /\ external_policy = 0
  /\ use_explore_policy = FALSE
  /\ solver_runs = 1
  /\ n_workers = 1
  /\ cur \in { h \in BestHistories : \A i \in 1..Len(h) : h[i].o \in ObsAfter(h[i].a) }
  /\ pc = "working"
  /\ belief_rewards \in RewardTables
  /\ result = Idle
  /\ cur_reserved = FALSE
  /\ call_in = NoCall
  /\ other_cfg = DefaultCfg

\* The host asks for the best action at the belief whose rewards are
\* belief_rewards.
GetBestAction ==
  /\ pc = "working"
  /\ \E out \in get_best_action(cfg, external_policy, cur, {belief_rewards}) :
       result' = [call |-> "get_best_action", a |-> out.a, exploring |-> FALSE,
                  err |-> out.err, branch |-> out.branch]
  /\ pc' = "acted"
  /\ UNCHANGED << cfg, other_cfg, args, belief_rewards, engine, n_workers,
                  cur, cur_reserved, call_in >>

NextBest == GetBestAction

SpecBest == InitBest /\ [][NextBest]_vars

(***************************************************************************)
(* The exploration decision: the last two workers of a run of an engine     *)
(* that has solved its policy at the first worker (a solver-based one), the *)
(* arguments of every get_next_action call kept for inspection.             *)
(***************************************************************************)
\* A test_and_boot engine: one test per quiz action, one work action,
\* accuracy 0.5 over the default window.
HeurCfg ==
  [DefaultCfg EXCEPT !.policy = "test_and_boot", !.n_test = 1, !.n_work = 1,
                     !.accuracy = Half,
                     !.accuracy_window = InitAccuracyWindow(None, 1)]

\* Engines with every exploration setting: a solver-based one, work_only and
\* test_and_boot.
ExploringCfgs ==
  { [c EXCEPT !.epsilon = s.epsilon,
              !.thompson = s.thompson,
              !.explore_policy = s.explore_policy,
              !.explore_actions = s.explore_actions] :
      c \in { [DefaultCfg EXCEPT !.policy = "appl"], DefaultCfg, HeurCfg },
      s \in ExploreSettings }

InitExplore ==
  /\ cfg \in ExploringCfgs
  /\ args = DefaultArgs
  /\ params_estimated = IF cfg.policy \in SolverPolicies /\ rl_p(cfg) THEN {0} ELSE {}
  /\ hparams_estimated = params_estimated
  /\ estimate_times = params_estimated
  /\ resolve_times = IF cfg.policy \in SolverPolicies THEN {0} ELSE {}
  /\ external_policy = IF cfg.policy \in SolverPolicies THEN 0 ELSE None
  /\ use_explore_policy = FALSE
  /\ solver_runs = Cardinality(resolve_times)
  /\ n_workers = MaxWorkers - 2
  /\ cur = << >>
  /\ pc = "idle"
  /\ belief_rewards = NoRewards
  /\ result = Idle
  /\ cur_reserved = FALSE
  /\ call_in = NoCall
  /\ other_cfg = DefaultCfg

\* The host asks the engine for the next action; the budget figures and the
\* value drawn by np.random.random() are kept.
GetNextActionOf ==
  /\ pc = "working"
  /\ Len(cur) < MaxE
  /\ \E b \in Budgets, u \in Draws :
       /\ \E out \in get_next_action(cfg, use_explore_policy, external_policy,
                                     cur, b[1], b[2], u, LookupTables) :
            result' = out
       /\ call_in' = [budget_spent |-> b[1], budget_explore |-> b[2], u |-> u]
  /\ pc' = "acted"
  /\ UNCHANGED << cfg, other_cfg, args, belief_rewards, engine, n_workers,
                  cur, cur_reserved >>

NextExplore ==
  \/ \E b \in PrepBudgets, reserved \in BOOLEAN, u \in Draws, ok \in BOOLEAN :
       PrepWorker(b[1], b[2], reserved, u, ok)
  \/ NewWorker
  \/ GetNextActionOf
  \/ Record
  \/ FinishWorker

SpecExplore == InitExplore /\ [][NextExplore]_vars

(***************************************************************************)
(* The canonical identity string (__str__).  Numbers with a fraction are    *)
(* counted in ten-thousandths (discount), thousandths (desired_accuracy)    *)
(* or as a fraction num/den (accuracy).                                     *)
(***************************************************************************)
Pad2(n) == IF n < 10 THEN "0" \o ToString(n) ELSE ToString(n)

Pad3(n) == IF n < 100 THEN "0" \o Pad2(n) ELSE ToString(n)

\* '{:.3f}'.format(x) for x = d / 10000 (no d ends in 5).
FormatF3(d) ==
  LET r == (d + 5) \div 10
  IN  ToString(r \div 1000) \o "." \o Pad3(r % 1000)

\* '{:.2f}'.format(x) for x = k / 1000 (no k ends in 5).
FormatF2(k) ==
  LET r == (k + 5) \div 10
  IN  ToString(r \div 100) \o "." \o Pad2(r % 100)

\* '{}'.format(v) for an integer or None
FormatNum(n) == IF n = None THEN "None" ELSE ToString(n)

\* '{}'.format(x) for a float x = num / den in [0, 1) with two decimals.
FormatAcc(x) ==
  LET h == (x.num * 100) \div x.den
  IN  "0." \o (IF h % 10 = 0 THEN ToString(h \div 10) ELSE Pad2(h))

\* equation_safe_filename(self.epsilon): the text of the expression, or of
\* the constant (a number of quarters).
equation_safe_filename(eps) ==
  IF eps.kind = "f" THEN "f"
  ELSE IF eps.p = 4 THEN "1.0"
  ELSE IF eps.p = 2 THEN "0.5"
  ELSE "0." \o ToString(25 * eps.p)

\* '_'.join(self.explore_actions)
RECURSIVE JoinActions(_)
JoinActions(S) ==
  IF S = {} THEN ""
  ELSE LET x == CHOOSE y \in S : TRUE
       IN  IF S = {x} THEN x ELSE x \o "_" \o JoinActions(S \ {x})

\* Policy.__str__
RECURSIVE str(_)
str(c) ==
  LET base ==
        IF c.policy \in {"appl", "zmdp"}
          THEN c.policy \o "-d" \o FormatF3(c.discount)
                 \o (IF c.timeout # None THEN "-tl" \o FormatNum(c.timeout) ELSE "")
        ELSE IF c.policy = "aitoolbox"
          THEN "ait" \o "-d" \o FormatF3(c.discount) \o "-h" \o FormatNum(c.horizon)
        ELSE IF c.policy = "test_and_boot"
          THEN c.policy
                 \o (IF c.n_teach > 0
                       THEN "-n_teach_"
                              \o (IF c.teach_type = "none" THEN "None" ELSE c.teach_type)
                              \o "_" \o FormatNum(c.n_teach)
                       ELSE "")
                 \o (IF c.n_blocks # 0
                       THEN "-n_test_" \o FormatNum(c.n_test)
                              \o "-n_work_" \o FormatNum(c.n_work)
                              \o "-acc_" \o FormatAcc(c.accuracy)
                              \o "_last_" \o FormatNum(c.accuracy_window)
                       ELSE "")
                 \o (IF c.n_blocks # None
                       THEN "-n_blocks_" \o FormatNum(c.n_blocks)
                              \o "-final_" \o c.final_action
                       ELSE "")
        ELSE c.policy
      rl ==
        IF rl_p(c)
          THEN (IF c.epsilon.kind # "none"
                  THEN "-eps_" \o equation_safe_filename(c.epsilon)
                         \o (IF c.explore_policy # "none"
                               THEN "-explore_p_" \o str(ExploreCfg(c))
                               ELSE "-explore_" \o JoinActions(c.explore_actions))
                  ELSE "")
                 \o (IF c.thompson THEN "-thomp" ELSE "")
                 \o (IF c.hyperparams \notin {"none", "HyperParams"}
                       THEN "-" \o c.hyperparams ELSE "")
                 \o "-cl" \o FormatNum(c.n_worker_classes)
                 \o (IF c.desired_accuracy # None
                       THEN "-acc" \o FormatF2(c.desired_accuracy) ELSE "")
          ELSE ""
  IN  base \o rl

\* Configurations that differ in parameters their variant uses.
StrSolverCfgs ==
  { [DefaultCfg EXCEPT !.policy = p, !.discount = d, !.timeout = t] :
      p \in {"appl", "zmdp"}, d \in {9900, 9904, 9500}, t \in {None, 60} }
  \cup
  { [DefaultCfg EXCEPT !.policy = "aitoolbox", !.discount = d, !.horizon = h] :
      d \in {9900, 9500}, h \in {1, 2} }

StrHeurCfgs ==
  { [DefaultCfg EXCEPT !.policy = "test_and_boot",
                       !.teach_type = t[1], !.n_teach = t[2],
                       !.n_blocks = b[1], !.final_action = b[2],
                       !.n_test = IF b[1] = 0 THEN 0 ELSE w[1],
                       !.n_work = IF b[1] = 0 THEN 0 ELSE w[2],
                       !.accuracy = IF b[1] = 0 THEN DefaultCfg.accuracy ELSE w[3],
                       !.accuracy_window = IF b[1] = 0 THEN 0 ELSE w[4]] :
      t \in { <<"none", 0>>, <<"tell", 1>>, <<"exp", 1>>, <<"exp", 2>> },
      b \in { <<None, "work">>, <<0, "work">>, <<0, "boot">>,
              <<1, "work">>, <<1, "boot">> },
      w \in { <<1, 1, Half, 2>>, <<2, 1, Half, 4>>, <<1, 2, Half, 2>>,
              <<1, 1, ThreeQuarters, 2>>, <<1, 1, Half, 1>> } }

StrExploreCfgs ==
  { [DefaultCfg EXCEPT !.policy = p, !.epsilon = s.epsilon,
                       !.thompson = s.thompson,
                       !.explore_policy = s.explore_policy,
                       !.explore_actions = s.explore_actions,
                       !.hyperparams = h, !.desired_accuracy = a] :
      p \in {"appl", "work_only"},
      s \in { x \in ExploreSettings :
                /\ x.epsilon.kind # "none" \/ x.thompson
                /\ x.explore_policy # "none" => x.epsilon.kind # "none" },
      h \in {"HyperParams", "HyperParamsUnknownRatio"},
      a \in {None, 800} }

StrCfgs ==
  StrSolverCfgs \cup StrHeurCfgs \cup StrExploreCfgs \cup { DefaultCfg }

InitStr ==
  /\ cfg \in StrCfgs
  /\ other_cfg \in StrCfgs
  /\ args = DefaultArgs
  /\ params_estimated = {}
  /\ hparams_estimated = {}
  /\ estimate_times = {}
  /\ resolve_times = {}
  /\ external_policy = None
  /\ use_explore_policy = FALSE
  /\ solver_runs = 0
  /\ n_workers = 0
  /\ cur = << >>
  /\ pc = "idle"
  /\ belief_rewards = NoRewards
  /\ result = Idle
  /\ cur_reserved = FALSE
  /\ call_in = NoCall

\* The host asks both engines for their identity strings.
Str ==
  /\ pc = "idle"
  /\ result' = [call |-> "__str__", a |-> 0, exploring |-> FALSE,
                err |-> "none", branch |-> "none",
                str |-> str(cfg), other_str |-> str(other_cfg)]
  /\ pc' = "named"
  /\ UNCHANGED << cfg, other_cfg, args, belief_rewards, engine, n_workers,
                  cur, cur_reserved, call_in >>

NextStr == Str

SpecStr == InitStr /\ [][NextStr]_vars

(***************************************************************************)
(* Properties of the re-solve scheduling (checked under Spec).             *)
(***************************************************************************)
SolverBased == cfg.policy \in {"appl", "zmdp", "aitoolbox"}

Learning == cfg.epsilon.kind # "none" \/ cfg.thompson

\* A prep_worker call has just returned or raised.
PrepStep == pc = "idle" /\ result'.call = "prep_worker" /\ pc' \in {"idle", "prepped"}

\* The call ran the solver (whether or not the solver succeeded).
RanSolver == result'.branch = "resolve"

TooSoon ==
  /\ resolve_times # {}
  /\ args.min_interval # None
  /\ \E k \in resolve_times :
       /\ \A j \in resolve_times : j <= k
       /\ n_workers - k < args.min_interval

CapReached ==
  /\ resolve_times # {}
  /\ args.max_n # None
  /\ Cardinality(resolve_times) >= args.max_n

\* C1: with resolve_min_worker_interval = m, a prep_worker call for a worker
\* less than m after the latest recorded resolve runs no solver; every newly
\* recorded resolve key exceeds the previous largest key, by at least m; no
\* resolve key is ever removed.
C1_ResolveInterval ==
  [][ /\ resolve_times \subseteq resolve_times'
      /\ \A k \in resolve_times' \ resolve_times :
           \A j \in resolve_times :
             /\ k > j
             /\ args.min_interval # None => k - j >= args.min_interval
      /\ (PrepStep /\ TooSoon) =>
           (~RanSolver /\ resolve_times' = resolve_times /\ solver_runs' = solver_runs)
    ]_vars

\* A learning, exploiting worker's resolve was suppressed by the interval alone.
C1_Witness ==
  /\ pc = "prepped" /\ result.branch = "none"
  /\ SolverBased /\ Learning /\ ~use_explore_policy
  /\ args.min_interval = 2 /\ args.max_n = None
  /\ resolve_times = {0, 2} /\ n_workers = 3

\* C2 (as stated): the number of solver runs never exceeds max_count, for
\* every value of max_count.
C2_Original == args.max_n # None => solver_runs <= args.max_n

\* C2 (amended): for max_count >= 1 the number of solver runs never exceeds
\* max_count; for max_count = 0 it never exceeds one (the first resolve is
\* not throttled); every run is recorded in resolve_times.
C2_ResolveCap ==
  /\ solver_runs = Cardinality(resolve_times)
  /\ (args.max_n # None /\ args.max_n >= 1) => solver_runs <= args.max_n
  /\ args.max_n = 0 => solver_runs <= 1

\* A learning, exploiting worker's resolve was suppressed by the cap alone.
C2_Witness ==
  /\ pc = "prepped" /\ result.branch = "none"
  /\ SolverBased /\ Learning /\ ~use_explore_policy
  /\ args.min_interval = None /\ args.max_n = 2
  /\ solver_runs = 2 /\ n_workers = 2

\* C3 (as stated): external_policy is None exactly until the first successful
\* solver run, and after prep_worker no solver-based engine, the nested
\* explore_policy included, looks up rewards in an external_policy of None.
C3_NoLookupBeforeResolve ==
  /\ (external_policy = None) <=> (solver_runs = 0)
  /\ (pc = "acted" /\ result.call = "get_next_action") =>
       result.err # "AttributeError"

\* C4: a prep_worker call of a learning solver-based engine runs the solver
\* if and only if (no external policy exists or the call did not put the
\* worker in delegated-explore mode) and neither throttle applies.
C4_ResolveIff ==
  [][ (PrepStep /\ SolverBased /\ Learning) =>
        (RanSolver <=>
           /\ (external_policy = None \/ ~use_explore_policy')
           /\ ~TooSoon
           /\ ~CapReached)
    ]_vars

\* An exploit worker resolved exactly min_interval workers after the last one.
C4_Witness ==
  /\ pc = "prepped" /\ result.branch = "resolve"
  /\ SolverBased /\ Learning /\ ~use_explore_policy
  /\ args.min_interval = 2
  /\ resolve_times = {0, 2} /\ external_policy = 2 /\ n_workers = 2

\* C5: a non-learning solver-based engine resolves once: whenever a
\* prep_worker call has completed, exactly one resolve is recorded, it is the
\* first completed solver run, and external_policy is the policy it produced.
C5_ResolveOnce ==
  (SolverBased /\ ~Learning) =>
    /\ solver_runs <= 1
    /\ Cardinality(resolve_times) = solver_runs
    /\ pc # "idle" => (solver_runs = 1 /\ resolve_times = {external_policy})
    /\ n_workers > 0 => (solver_runs = 1 /\ resolve_times = {external_policy})

\* A later worker of a non-learning engine was prepared without a resolve.
C5_Witness ==
  /\ SolverBased /\ ~Learning
  /\ pc = "prepped" /\ result.branch = "none"
  /\ n_workers = 3 /\ resolve_times = {0} /\ external_policy = 0
  /\ args.min_interval = None /\ args.max_n = None

(***************************************************************************)
(* Properties of the reward lookup (checked under SpecBest).               *)
(***************************************************************************)
ValidWithEntry ==
  { a \in get_valid_actions(cur) : belief_rewards[a] # 0 }

\* C6: get_best_action of a solver-based engine returns a valid action that
\* has an entry in the reward table and whose reward is the maximum over the
\* valid actions with entries; it raises exactly when no valid action has an
\* entry.
C6_BestValidAction ==
  (pc = "acted" /\ result.call = "get_best_action") =>
    /\ (result.err # "none") <=> (ValidWithEntry = {})
    /\ result.err = "none" =>
         /\ result.a \in ValidWithEntry
         /\ \A b \in ValidWithEntry : belief_rewards[b] <= belief_rewards[result.a]

\* A valid action was returned although an invalid one has the highest reward.
C6_Witness ==
  /\ pc = "acted" /\ result.call = "get_best_action"
  /\ cur = << >>
  /\ belief_rewards[a_exp] = 2 /\ belief_rewards[a_ask] = 1
  /\ result.a = a_ask

(***************************************************************************)
(* Properties of the test_and_boot heuristic (checked under SpecTB).       *)
(***************************************************************************)
\* get_next_action has just returned what get_best_action chose.
Decided ==
  /\ cfg.policy = "test_and_boot"
  /\ pc = "acted" /\ result.call = "get_next_action" /\ result.err = "none"

QuizActions == { i \in ActionIdx : Actions[i].quiz_val # None }

AskAction == CHOOSE i \in ActionIdx : Actions[i] = [name |-> "ask", quiz_val |-> None]

BootAction == CHOOSE i \in ActionIdx : Actions[i] = [name |-> "boot", quiz_val |-> None]

FinalAction == IF cfg.final_action = "work" THEN AskAction ELSE BootAction

\* The positions of the trailing run of quiz actions of the history.
TrailingQuiz ==
  { i \in 1..Len(cur) : \A j \in i..Len(cur) : cur[j].a \in QuizActions }

\* Every quiz action has been issued n_test times in the current test batch.
BatchComplete ==
  \A q \in QuizActions :
    Cardinality({ i \in TrailingQuiz : cur[i].a = q }) = cfg.n_test

\* The last accuracy_window observations (all of them when there are fewer).
WindowPositions ==
  { i \in 1..Len(cur) : i > Len(cur) - cfg.accuracy_window }

WindowRights == Cardinality({ i \in WindowPositions : Observations[cur[i].o] = "r" })

BlockLen == cfg.n_test * Cardinality(QuizActions) + cfg.n_work

QuizLen == cfg.n_test * Cardinality(QuizActions)

\* Positions 1..n of the sequence of actions acts form whole blocks and the
\* start of one: in each block first quiz actions, none more than n_test
\* times, then asks.
BlockShaped(acts, n) ==
  \A i \in 1..n :
    LET start == i - ((i - 1) % BlockLen)
    IN  IF i - start < QuizLen
          THEN /\ acts[i] \in QuizActions
               /\ Cardinality({ j \in start..i : acts[j] = acts[i] }) <= cfg.n_test
          ELSE acts[i] = AskAction

Booted == \E i \in 1..Len(cur) : cur[i].a = BootAction

\* The number of actions the test/work cycle covers: all of them, or those
\* before the Final phase.
CycleLen ==
  IF cfg.n_blocks # None /\ Len(cur) > cfg.n_blocks * BlockLen
    THEN cfg.n_blocks * BlockLen ELSE Len(cur)

\* C8 (as stated, for runs without a teach phase): the test/work cycle of a
\* worker not booted is a concatenation of blocks of n_test occurrences of
\* every quiz action followed by n_work asks, for every n_test >= 1 and
\* n_work >= 0.
C8_BlockStructure ==
  (cfg.policy = "test_and_boot" /\ cfg.teach_type = "none"
     /\ cfg.n_blocks # 0 /\ ~Booted) =>
    BlockShaped(current_actions(cur), CycleLen)

\* The actions since the last teach action (tell or exp): the test/work
\* cycle and what follows it.
AfterTeach ==
  LET teach == { i \in 1..Len(cur) : Actions[cur[i].a].name \in {"tell", "exp"} }
      from == IF teach = {} THEN 1
              ELSE (CHOOSE i \in teach : \A j \in teach : j <= i) + 1
  IN  SubSeq(current_actions(cur), from, Len(cur))

\* The worker has completed N blocks of the test/work cycle.
CompletedBlocks(N) ==
  /\ Len(AfterTeach) >= N * BlockLen
  /\ BlockShaped(AfterTeach, N * BlockLen)

\* C9 (as stated): with n_blocks = N > 0 the final branch is taken exactly
\* when the worker has completed N blocks of the test/work cycle, also after
\* a teach phase, and it returns the configured final action.  Stated for
\* n_work >= 1 and a teach phase that is absent or teaches (n_teach >= 1).
C9_Original ==
  (Decided /\ cfg.n_blocks # None /\ cfg.n_blocks > 0
     /\ cfg.n_work >= 1 /\ (cfg.teach_type = "none" \/ cfg.n_teach >= 1)) =>
    /\ (result.branch = "final") <=> CompletedBlocks(cfg.n_blocks)
    /\ result.branch = "final" => result.a = FinalAction

\* C9 (amended): with n_blocks = N > 0 the final branch is taken exactly when
\* the number of actions of the worker's history, teach actions included,
\* has reached N * block_length and no teach action is returned; it returns
\* the configured final action; with no teach_type and n_work >= 1 the
\* history reaches that length exactly when N blocks are complete.
C9_FinalPhase ==
  (Decided /\ cfg.n_blocks # None /\ cfg.n_blocks > 0) =>
    /\ (result.branch = "final") <=>
         (Len(cur) >= cfg.n_blocks * BlockLen /\ result.branch \notin {"teach", "start"})
    /\ result.branch = "final" => result.a = FinalAction
    /\ (cfg.teach_type = "none" /\ cfg.n_work >= 1 /\ ~Booted) =>
         ((Len(cur) >= cfg.n_blocks * BlockLen) <=> CompletedBlocks(cfg.n_blocks))

\* A block of n_test = 2, two quiz actions and n_work = 3 is complete after
\* 7 actions, and the final action is returned.
C9_Witness ==
  /\ Decided /\ result.branch = "final" /\ result.a = AskAction
  /\ cfg.n_blocks = 1 /\ cfg.n_test = 2 /\ cfg.n_work = 3
  /\ Cardinality(QuizActions) = 2 /\ Len(cur) = 7

\* The teach actions still required by teach_type and n_teach.
TeachRequired ==
  IF cfg.teach_type = "tell"
    THEN \E a \in ActionIdx :
           /\ Actions[a].name = "tell"
           /\ Cardinality({ i \in 1..Len(cur) : cur[i].a = a }) < cfg.n_teach
  ELSE IF cfg.teach_type = "exp"
    THEN \E a \in QuizActions :
           Cardinality({ i \in 1..(Len(cur) - 1) :
                           cur[i].a = a /\ Actions[cur[i + 1].a].name = "exp" })
             < cfg.n_teach
  ELSE FALSE

\* C10 (as stated): with n_blocks = 0 no test quiz and no accuracy check is
\* ever issued, and once no required teach action remains every call, the one
\* at the empty history included, returns the configured final action.
C10_NoTesting ==
  (Decided /\ cfg.n_blocks = 0) =>
    /\ result.branch \notin {"test", "check"}
    /\ ~TeachRequired => result.a = FinalAction

(***************************************************************************)
(* Properties of the teach phase (checked under SpecTB).                   *)
(***************************************************************************)
\* The actions teach_type asks to teach.
TeachSet ==
  IF cfg.teach_type = "tell" THEN { a \in ActionIdx : Actions[a].name = "tell" }
  ELSE IF cfg.teach_type = "exp" THEN QuizActions
  ELSE {}

\* How many times the worker has been taught action a.
Taught(a) ==
  IF cfg.teach_type = "exp"
    THEN Cardinality({ i \in 1..(Len(cur) - 1) :
                         cur[i].a = a /\ Actions[cur[i + 1].a].name = "exp" })
    ELSE Cardinality({ i \in 1..Len(cur) : cur[i].a = a })

InProgress == { a \in TeachSet : Taught(a) > 0 /\ Taught(a) < cfg.n_teach }

\* C11: with a teach_type and n_teach >= 1, while some teach action has been
\* taught fewer than n_teach times every decision is a teach-phase decision;
\* at most one teach action is in progress at any time; a teach action not
\* taught before is returned only when none is in progress.
C11_TeachBatches ==
  (cfg.policy = "test_and_boot" /\ cfg.teach_type # "none" /\ cfg.n_teach >= 1) =>
    /\ Cardinality(InProgress) <= 1
    /\ (Decided /\ \E a \in TeachSet : Taught(a) < cfg.n_teach) =>
         result.branch = "teach"
    /\ (Decided /\ result.branch = "teach" /\ result.a \in TeachSet
          /\ Taught(result.a) = 0) => InProgress = {}

\* The second quiz action is started after the first was taught twice.
C11_Witness ==
  /\ Decided /\ result.branch = "teach"
  /\ cfg.teach_type = "exp" /\ cfg.n_teach = 2
  /\ Len(cur) = 4 /\ cur[1].a = cur[3].a /\ cur[1].a \in QuizActions
  /\ Actions[cur[2].a].name = "exp" /\ Actions[cur[4].a].name = "exp"
  /\ result.a \in QuizActions /\ result.a # cur[1].a

(***************************************************************************)
(* Properties of the exploration decision (checked under SpecExplore).     *)
(***************************************************************************)
\* A get_next_action call has just returned (not raised).
NextActionStep ==
  /\ pc = "working" /\ pc' = "acted"
  /\ result'.call = "get_next_action" /\ result'.err = "none"

\* C12: with an explore_policy configured, only prep_worker changes
\* use_explore_policy; every get_next_action call that returns, returns the
\* flag prep_worker cached for the worker, and when the flag is true the
\* action is the one the secondary policy chose (ask for a work_only
\* secondary policy), not one of the engine's own lookup.
C12_DelegatedOnce ==
  [][ /\ ~PrepStep => use_explore_policy' = use_explore_policy
      /\ (NextActionStep /\ cfg.explore_policy # "none") =>
           /\ result'.exploring = use_explore_policy
           /\ use_explore_policy =>
                /\ cfg.explore_policy = "work_only" =>
                     (result'.a = AskAction /\ result'.branch = "work_only")
                /\ cfg.explore_policy # "work_only" => result'.branch = "solver"
           /\ ~use_explore_policy =>
                \E out \in get_best_action(cfg, external_policy, cur, LookupTables) :
                  out.err = "none" /\ out.a = result'.a /\ out.branch = result'.branch
    ]_vars

\* The second call for a worker in delegated-explore mode returns the
\* secondary policy's action and the flag, as the first did.
C12_Witness ==
  /\ pc = "acted" /\ result.call = "get_next_action" /\ result.err = "none"
  /\ cfg.explore_policy = "work_only" /\ use_explore_policy
  /\ Len(cur) = 1 /\ cur[1].a = AskAction
  /\ result.exploring /\ result.a = AskAction /\ result.branch = "work_only"
  /\ external_policy # None

\* C13: after a prep_worker call with reserved = True use_explore_policy is
\* false, and every get_next_action call for that worker on an engine with an
\* explore_policy returns (get_best_action(history, belief), False);
\* use_explore_policy is true only if the worker is not reserved, epsilon is
\* configured and explore_policy is configured.
C13_ReservedNeverExplores ==
  /\ use_explore_policy =>
       (~cur_reserved /\ cfg.epsilon.kind # "none" /\ cfg.explore_policy # "none")
  /\ (cur_reserved /\ cfg.explore_policy # "none" /\ pc = "acted"
        /\ result.call = "get_next_action" /\ result.err = "none") =>
       /\ ~result.exploring
       /\ \E out \in get_best_action(cfg, external_policy, cur, LookupTables) :
            out.err = "none" /\ out.a = result.a /\ out.branch = result.branch

\* A reserved worker of an engine that explores with probability 1 gets the
\* engine's own best action.
C13_Witness ==
  /\ cur_reserved /\ ~use_explore_policy
  /\ cfg.epsilon = [kind |-> "const", p |-> 4] /\ cfg.explore_policy = "work_only"
  /\ pc = "acted" /\ result.call = "get_next_action" /\ result.err = "none"
  /\ ~result.exploring /\ result.branch = "solver" /\ result.a = BootAction

\* Inline exploration is configured: epsilon set, no explore_policy.
InlineEnabled == cfg.epsilon.kind # "none" /\ cfg.explore_policy = "none"

\* The exploration probability of the call examined, in quarters.
DrawProbability ==
  IF cfg.epsilon.kind = "const" THEN cfg.epsilon.p
  ELSE (4 * call_in.budget_spent) \div call_in.budget_explore

InlineFired == InlineEnabled /\ call_in.u <= DrawProbability

\* A get_next_action call has returned (not raised).
Returned ==
  pc = "acted" /\ result.call = "get_next_action" /\ result.err = "none"

\* C14: get_next_action returns is_exploring = True exactly when inline
\* exploration fired or the worker is in delegated-explore mode; the two
\* mechanisms are never both enabled; in every other case, always for an
\* engine without epsilon, it returns (get_best_action(history, belief), False).
C14_ExploreFirst ==
  /\ ~(InlineEnabled /\ use_explore_policy)
  /\ Returned =>
       /\ result.exploring <=> (InlineFired \/ use_explore_policy)
       /\ cfg.epsilon.kind = "none" => ~result.exploring
       /\ ~result.exploring =>
            \E out \in get_best_action(cfg, external_policy, cur, LookupTables) :
              out.err = "none" /\ out.a = result.a /\ out.branch = result.branch

\* The draw 0.75 against the probability f = 1/2 fails: the engine's own best
\* action is returned, not exploring.
C14_Witness ==
  /\ Returned /\ InlineEnabled /\ cfg.epsilon.kind = "f"
  /\ call_in = [budget_spent |-> 1, budget_explore |-> 2, u |-> 3]
  /\ ~result.exploring /\ result.branch = "solver"

\* The actions valid after the current worker's last action.
ValidNow ==
  { i \in ActionIdx :
      Actions[i].name = "exp" =>
        (Len(cur) > 0 /\ cur[Len(cur)].a \in QuizActions) }

\* C15 (as stated): whenever inline exploration fires, the call returns a
\* valid action whose type is in explore_actions, also after a history that
\* leaves no valid action of an explore type.
C15_InlineValid ==
  (pc = "acted" /\ result.call = "get_next_action"
     /\ call_in.budget_explore # 0 /\ InlineFired) =>
    /\ result.err = "none"
    /\ result.a \in ValidNow
    /\ get_type(result.a) \in cfg.explore_actions

\* C16 (as stated): a get_next_action call with budget_explore = 0 takes the
\* budget fraction to be 1 and completes with a decision instead of failing
\* on the division, for every policy variant.
C16_BudgetFraction ==
  (pc = "acted" /\ result.call = "get_next_action"
     /\ call_in.budget_explore = 0) =>
    result.err # "ZeroDivisionError"

(***************************************************************************)
(* Properties of the engine's records (checked under SpecExplore).          *)
(***************************************************************************)
\* C17: an engine whose variant is test_and_boot or work_only never gets an
\* external policy, an estimation record or a resolve record, and never runs
\* the solver, whatever calls are made and whether or not it learns.
C17_HeuristicNoRecords ==
  cfg.policy \in {"test_and_boot", "work_only"} =>
    /\ external_policy = None
    /\ params_estimated = {} /\ hparams_estimated = {}
    /\ estimate_times = {} /\ resolve_times = {}
    /\ solver_runs = 0
    /\ result.branch # "resolve"

\* A worker of a learning test_and_boot engine has been prepared and served
\* and the next one prepared; nothing is recorded.
C17_Witness ==
  /\ cfg.policy = "test_and_boot" /\ cfg.epsilon.kind # "none"
  /\ n_workers = MaxWorkers - 1 /\ pc = "prepped"
  /\ result.call = "prep_worker" /\ result.err = "none"
  /\ external_policy = None /\ resolve_times = {} /\ estimate_times = {}

(***************************************************************************)
(* Properties of the identity string (checked under SpecStr).              *)
(***************************************************************************)
\* C18 (as stated): two engines have the same identity string exactly when
\* their configurations are equal; engines that differ in a parameter their
\* variant uses (discount, timeout, horizon, the heuristic's and the
\* exploration settings, hyperparams) have different strings.
C18_StrInjective ==
  pc = "named" =>
    ((result.str = result.other_str) <=> (cfg = other_cfg))

(***************************************************************************)
(* Properties of the 'exp' teach type and of the accuracy window (checked  *)
(* under SpecTB).                                                           *)
(***************************************************************************)
ExpAction == CHOOSE i \in ActionIdx : Actions[i].name = "exp"

\* How many occurrences of quiz action q were answered right and followed
\* at once by the explanation.
SuccessfullyTaught(q) ==
  Cardinality({ i \in 1..(Len(cur) - 1) :
                  /\ cur[i].a = q /\ Observations[cur[i].o] = "r"
                  /\ cur[i + 1].a = ExpAction })

\* C19 (as stated): with teach_type 'exp' a quiz occurrence counts toward
\* n_teach only when it is a successful quiz immediately followed by 'exp',
\* so the teach phase is left only when every quiz action has n_teach such
\* occurrences; after a quiz action that still needs teaching the action
\* returned is 'exp'; 'exp' is returned only after a quiz action.
C19_ExpTeach ==
  (Decided /\ cfg.teach_type = "exp" /\ cfg.n_teach >= 1) =>
    /\ result.branch # "teach" =>
         \A q \in QuizActions : SuccessfullyTaught(q) >= cfg.n_teach
    /\ (Len(cur) > 0 /\ cur[Len(cur)].a \in QuizActions
          /\ Taught(cur[Len(cur)].a) < cfg.n_teach) => result.a = ExpAction
    /\ result.a = ExpAction =>
         (Len(cur) > 0 /\ cur[Len(cur)].a \in QuizActions)

\* C20 (as stated): when the accuracy check is reached and the window is
\* empty, larger than the number of observations the worker has so far, or
\* holds a null or terminal observation, get_best_action fails instead of
\* returning ask or boot.
C20_DegenerateWindow ==
  (pc = "acted" /\ result.call = "get_next_action" /\ result.branch = "check"
     /\ \/ WindowPositions = {}
        \/ cfg.accuracy_window > Len(cur)
        \/ \E i \in WindowPositions : Observations[cur[i].o] \in {"null", "term"}) =>
    result.err # "none"

(***************************************************************************)
(* Properties of the estimation records (checked under Spec).              *)
(***************************************************************************)
\* C21 (as stated): in every reachable state, the one a failed solver run
\* leaves behind included, params_estimated, hparams_estimated and
\* estimate_times have the same keys, every such key also has a
\* resolve_times record, and an engine that does not learn has none.
C21_EstimationWithResolve ==
  /\ params_estimated = estimate_times
  /\ hparams_estimated = estimate_times
  /\ estimate_times \subseteq resolve_times
  /\ ~Learning => estimate_times = {}

====
